---- MODULE Spec2Model ----
(***************************************************************************)
(* DogSSH configuration repository: the SSH config document, the metadata  *)
(* sidecar and the encrypted password sidecar, with the facade operations  *)
(* of Repository (AddServer, UpdateServer, DeleteServer, SetPinned,        *)
(* RecordSSH, HasPassword, GetDecryptedPassword).                          *)
(*                                                                         *)
(* Spec      : the facade operations, one action per call, every call with *)
(*             an injected I/O fault (or none).                            *)
(* SpecFiles : saveConfig and savePasswords at the granularity of single   *)
(*             file-system steps, with a crash possible between any two.   *)
(* SpecMetadata : SetPinned, RecordSSH and ListServers over the documents   *)
(*             the config file may hold.                                   *)
(* SpecSecrets : the PasswordManager methods, for any store path and any   *)
(*             string handed to DecryptPassword.                           *)
(* SpecDocument : ListServers, AddServer, UpdateServer and DeleteServer    *)
(*             with no fault, over hand-edited documents.                  *)
(* SpecSteps : AddServer, UpdateServer and DeleteServer store by store,    *)
(*             with the process dying between any two stores.              *)
(* SpecOverlap : two callers whose loads and saves of a mapping interleave. *)
(***************************************************************************)
EXTENDS Integers, Sequences, FiniteSets, TLC

VARIABLES
  cfg,       \* the config document on disk: sequence of Host blocks
  secFile,   \* passwords.json: [st, m], m maps alias -> envelope
  metaFile,  \* the metadata file: [st, m], m maps alias -> metadata record
  last,      \* the last facade call: its arguments, result and store writes
  fs,        \* SpecFiles: files beside the config (target, temp, backups, secret)
  run,       \* the running call: its arguments, how far it got, its bookkeeping
  filePath,  \* PasswordManager.filePath, fixed when the repository is constructed
  pm         \* SpecSecrets: the last PasswordManager call, its arguments and result

vars == <<cfg, secFile, metaFile, last, fs, run, filePath, pm>>

(***************************************************************************)
(* Bounds of the model and input domains                                   *)
(***************************************************************************)
MaxHosts == 2            \* AddServer is offered while the document has fewer blocks
MaxCount == 1            \* RecordSSH is offered while SSHCount is below this

AliasSet == {"a", "b"}
PasswordSet == {"", "p", "q"}
NonceSet == {0}
FaultSet == {"none", "cfgLoad", "cfgSave", "secSave", "secTorn", "metaLoad"}

(***************************************************************************)
(* strings: ToLower and EqualFold letter by letter (ASCII), and %d          *)
(***************************************************************************)
LowerChar(ch) ==
  CASE ch = "A" -> "a" [] ch = "B" -> "b" [] ch = "C" -> "c" [] ch = "D" -> "d"
    [] ch = "E" -> "e" [] ch = "F" -> "f" [] ch = "G" -> "g" [] ch = "H" -> "h"
    [] ch = "I" -> "i" [] ch = "J" -> "j" [] ch = "K" -> "k" [] ch = "L" -> "l"
    [] ch = "M" -> "m" [] ch = "N" -> "n" [] ch = "O" -> "o" [] ch = "P" -> "p"
    [] ch = "Q" -> "q" [] ch = "R" -> "r" [] ch = "S" -> "s" [] ch = "T" -> "t"
    [] ch = "U" -> "u" [] ch = "V" -> "v" [] ch = "W" -> "w" [] ch = "X" -> "x"
    [] ch = "Y" -> "y" [] ch = "Z" -> "z" [] OTHER -> ch

RECURSIVE FoldLetters(_)
FoldLetters(s) ==
  IF s = "" THEN ""
  ELSE LowerChar(SubSeq(s, 1, 1)) \o FoldLetters(SubSeq(s, 2, Len(s)))

\* the directive keys that occur, folded once
FoldedKeys ==
  [s \in {"HostName", "Hostname", "hostname", "HOSTNAME", "User", "user", "Port", "PORT",
          "port", "IdentityFile", "IDENTITYFILE", "identityfile", "ProxyJump"}
     |-> FoldLetters(s)]

ToLower(s) == IF s \in DOMAIN FoldedKeys THEN FoldedKeys[s] ELSE FoldLetters(s)

EqualFold(s, t) == ToLower(s) = ToLower(t)

Digit(d) ==
  CASE d = 0 -> "0" [] d = 1 -> "1" [] d = 2 -> "2" [] d = 3 -> "3" [] d = 4 -> "4"
    [] d = 5 -> "5" [] d = 6 -> "6" [] d = 7 -> "7" [] d = 8 -> "8" [] OTHER -> "9"

RECURSIVE SprintfD(_)
SprintfD(n) ==
  IF n < 0 THEN "-" \o SprintfD(0 - n)
  ELSE IF n < 10 THEN Digit(n)
  ELSE SprintfD(n \div 10) \o Digit(n % 10)

(***************************************************************************)
(* The config document (crud.go)                                           *)
(***************************************************************************)
KV(key, value) == [Kind |-> "KV", Key |-> key, Value |-> value]
Comment(text) == [Kind |-> "Empty", Key |-> "", Value |-> text]

PatternString(p) == p

hostContainsPattern(host, target) ==
  \E i \in 1..Len(host.Patterns) : PatternString(host.Patterns[i]) = target

\* compares the first pattern of each block only
findHostByAlias_FirstPatternOnly(c, alias) ==
  IF \E i \in 1..Len(c) : c[i].Patterns[1] = alias
  THEN CHOOSE i \in 1..Len(c) :
         c[i].Patterns[1] = alias /\ \A j \in 1..(i - 1) : c[j].Patterns[1] # alias
  ELSE 0

\* index of the last block that has the pattern
findHostByAlias_LastMatch(c, alias) ==
  IF \E i \in 1..Len(c) : hostContainsPattern(c[i], alias)
  THEN CHOOSE i \in 1..Len(c) :
         /\ hostContainsPattern(c[i], alias)
         /\ \A j \in (i + 1)..Len(c) : ~hostContainsPattern(c[j], alias)
  ELSE 0

\* index of the first block that has the pattern, 0 for nil
findHostByAlias(c, alias) ==
  IF \E i \in 1..Len(c) : hostContainsPattern(c[i], alias)
  THEN CHOOSE i \in 1..Len(c) :
         /\ hostContainsPattern(c[i], alias)
         /\ \A j \in 1..(i - 1) : ~hostContainsPattern(c[j], alias)
  ELSE 0

serverExists_NeverFound(c, alias) == FALSE

serverExists(c, alias) == findHostByAlias(c, alias) # 0

addKVNodeIfNotEmpty(host, key, value) ==
  IF value = "" THEN host
  ELSE [host EXCEPT !.Nodes = Append(@, KV(key, value))]

RECURSIVE addIdentityFiles(_, _)
addIdentityFiles(host, files) ==
  IF files = <<>> THEN host
  ELSE addIdentityFiles(addKVNodeIfNotEmpty(host, "IdentityFile", Head(files)), Tail(files))

createHostFromServer(server) ==
  LET h0 == [Patterns |-> <<server.Alias>>, Nodes |-> <<>>,
             EOLComment |-> "Added by dogssh"]
      h1 == addKVNodeIfNotEmpty(h0, "HostName", server.Host)
      h2 == addKVNodeIfNotEmpty(h1, "User", server.User)
      h3 == addKVNodeIfNotEmpty(h2, "Port", SprintfD(server.Port))
  IN addIdentityFiles(h3, server.IdentityFiles)

getProperKeyCase(key) ==
  CASE ToLower(key) = "hostname" -> "HostName"
    [] ToLower(key) = "user" -> "User"
    [] ToLower(key) = "port" -> "Port"
    [] ToLower(key) = "identityfile" -> "IdentityFile"
    [] OTHER -> key

\* appends without looking for the directive
updateOrAddKVNode_AlwaysAppends(host, key, newValue) ==
  [host EXCEPT !.Nodes = Append(@, KV(getProperKeyCase(key), newValue))]

updateOrAddKVNode(host, key, newValue) ==
  LET keyLower == ToLower(key)
      hit(i) == host.Nodes[i].Kind = "KV" /\ EqualFold(host.Nodes[i].Key, keyLower)
  IN IF \E i \in 1..Len(host.Nodes) : hit(i)
     THEN LET i == CHOOSE k \in 1..Len(host.Nodes) :
                     hit(k) /\ \A j \in 1..(k - 1) : ~hit(j)
          IN [host EXCEPT !.Nodes[i].Value = newValue]
     ELSE [host EXCEPT !.Nodes = Append(@, KV(getProperKeyCase(key), newValue))]

\* compares the key letter for letter
removeKey_CaseSensitive(nodes, key) ==
  SelectSeq(nodes, LAMBDA n : ~(n.Kind = "KV" /\ n.Key = key))

removeKey(nodes, key) ==
  SelectSeq(nodes, LAMBDA n : ~(n.Kind = "KV" /\ EqualFold(n.Key, key)))

\* the three updates are applied in the iteration order of a Go map, which the
\* language leaves unspecified: order is any permutation of the three keys
KeyOrders ==
  {o \in [1..3 -> {"hostname", "user", "port"}] : \A i, j \in 1..3 : i # j => o[i] # o[j]}

updateHostNodes(host, newServer, order) ==
  LET updates(key) == CASE key = "hostname" -> newServer.Host
                        [] key = "user" -> newServer.User
                        [] OTHER -> SprintfD(newServer.Port)
      step(h, key) == IF updates(key) # "" THEN updateOrAddKVNode(h, key, updates(key))
                      ELSE h
      h3 == step(step(step(host, order[1]), order[2]), order[3])
      h4 == [h3 EXCEPT !.Nodes = removeKey(@, "IdentityFile")]
  IN addIdentityFiles(h4, newServer.IdentityFiles)

removeHostByAlias_DropsHead(hosts, alias) ==
  LET i == findHostByAlias(hosts, alias)
  IN IF i = 0 THEN SubSeq(hosts, 2, Len(hosts))
     ELSE SubSeq(hosts, 1, i - 1) \o SubSeq(hosts, i + 1, Len(hosts))

removeHostByAlias(hosts, alias) ==
  LET i == findHostByAlias(hosts, alias)
  IN IF i = 0 THEN hosts
     ELSE SubSeq(hosts, 1, i - 1) \o SubSeq(hosts, i + 1, Len(hosts))

\* leaves the new alias as the only pattern
renamePatterns_Collapses(patterns, oldAlias, newAlias) == <<newAlias>>

\* UpdateServer's rename loop over host.Patterns
renamePatterns(patterns, oldAlias, newAlias) ==
  [i \in 1..Len(patterns) |-> IF patterns[i] = oldAlias THEN newAlias ELSE patterns[i]]

(***************************************************************************)
(* The secret store (PasswordManager).  A stored string is [b64, bytes]:   *)
(* b64 says whether it is valid base64, bytes is what it decodes to (for a *)
(* string that is not base64, the string itself).                          *)
(***************************************************************************)
EmptyMap == [x \in {} |-> 0]

\* writes the entry into an empty mapping
MapPut_DropsOthers(m, k, v) == [x \in {k} |-> v]

MapPut(m, k, v) == [x \in (DOMAIN m) \cup {k} |-> IF x = k THEN v ELSE m[x]]
MapDelete(m, k) == [x \in (DOMAIN m) \ {k} |-> m[x]]

NoFile == [st |-> "absent", m |-> EmptyMap]
CorruptFile == [st |-> "corrupt", m |-> EmptyMap]
FileOf(m) == [st |-> "ok", m |-> m]

\* strings.Contains
Contains(str, substr) ==
  \E i \in 1..(Len(str) - Len(substr) + 1) : SubSeq(str, i, i + Len(substr) - 1) = substr

NonceSize == 12

Base64Encode(bytes) == [b64 |-> TRUE, bytes |-> bytes]
PlainText(str) == [b64 |-> FALSE, bytes |-> <<str>>]
EmptyString == Base64Encode(<<>>)

Base64Decode(str) ==
  IF str.b64 THEN [bytes |-> str.bytes, err |-> ""]
  ELSE [bytes |-> <<>>, err |-> "illegal base64 data"]

\* sha256(filePath + "lazyssh-password-encryption-key"): one key per store path
getEncryptionKey == <<"sha256", filePath \o "lazyssh-password-encryption-key">>

\* AES-GCM: the body is the plaintext under the key stream of (key, nonce), the
\* tag authenticates the body under (key, nonce); ciphertext = body then tag
XorKeyStream(key, nonce, text) == [k |-> key, n |-> nonce, pt |-> text]
Tag(key, nonce, body) == [k |-> key, n |-> nonce, over |-> body]

Seal(key, nonce, plaintext) ==
  LET body == XorKeyStream(key, nonce, plaintext)
  IN <<body, Tag(key, nonce, body)>>

\* returns whatever the body decrypts to, without verifying the tag
Open_Unauthenticated(key, nonce, ciphertext) ==
  IF Len(ciphertext) < 2 THEN [val |-> "", err |-> "cipher: message authentication failed"]
  ELSE [val |-> IF ciphertext[1].k = key /\ ciphertext[1].n = nonce
                THEN ciphertext[1].pt ELSE "garbage",
        err |-> ""]

Open(key, nonce, ciphertext) ==
  IF Len(ciphertext) < 2 THEN [val |-> "", err |-> "cipher: message authentication failed"]
  ELSE IF ciphertext[2] # Tag(key, nonce, ciphertext[1])
  THEN [val |-> "", err |-> "cipher: message authentication failed"]
  ELSE [val |-> IF ciphertext[1].k = key /\ ciphertext[1].n = nonce
                THEN ciphertext[1].pt ELSE "garbage",
        err |-> ""]

\* stores the password as it is
EncryptPassword_Plain(password, nonce) == PlainText(password)

\* nonce: what rand.Reader filled the 12 nonce bytes with
EncryptPassword(password, nonce) ==
  LET key == getEncryptionKey
      nonceBytes == [i \in 1..NonceSize |-> nonce]
      ciphertext == Seal(key, nonceBytes, password)
  IN Base64Encode(nonceBytes \o ciphertext)

DecryptPassword(encryptedPassword) ==
  LET key == getEncryptionKey
      dec == Base64Decode(encryptedPassword)
      encrypted == dec.bytes
  IN IF dec.err # "" THEN [val |-> "", err |-> dec.err]
     ELSE IF Len(encrypted) < NonceSize
     THEN [val |-> "", err |-> "encrypted password too short"]
     ELSE Open(key, SubSeq(encrypted, 1, NonceSize),
               SubSeq(encrypted, NonceSize + 1, Len(encrypted)))

\* opens the file for writing when it reads: a missing file comes to exist
ReadFile_Creates(f) == IF f.st = "absent" THEN FileOf(EmptyMap) ELSE f

\* os.Stat and os.ReadFile leave the file as it is, and a missing file missing
ReadFile(f) == f

loadPasswords(f, fault) ==
  IF f.st = "absent" THEN [m |-> EmptyMap, err |-> ""]
  ELSE IF fault = "secRead"
  THEN [m |-> EmptyMap, err |-> "read passwords '" \o filePath \o "': permission denied"]
  ELSE IF f.st = "corrupt"
  THEN [m |-> EmptyMap,
        err |-> "parse passwords JSON '" \o filePath \o "': unexpected end of JSON input"]
  ELSE [m |-> f.m, err |-> ""]

\* os.WriteFile: "secSave" fails before the file is opened (ensureDirectory, open),
\* "secTorn" fails after the file was truncated and partly written
savePasswords(f, passwords, fault) ==
  IF fault = "secSave"
  THEN [f |-> f, err |-> "write passwords '" \o filePath \o "': permission denied",
        wrote |-> FALSE]
  ELSE IF fault = "secTorn"
  THEN [f |-> CorruptFile, err |-> "write passwords '" \o filePath \o "': no space left on device",
        wrote |-> TRUE]
  ELSE [f |-> FileOf(passwords), err |-> "", wrote |-> TRUE]

\* encrypts and stores the empty password like any other
UpdateServerPassword_StoresEmpty(f, alias, newPassword, nonce, fault) ==
  LET ld == loadPasswords(f, fault)
  IN IF ld.err # "" THEN [f |-> f, err |-> "load passwords: " \o ld.err, wrote |-> FALSE]
     ELSE savePasswords(f, MapPut(ld.m, alias, EncryptPassword(newPassword, nonce)), fault)

UpdateServerPassword(f, alias, newPassword, nonce, fault) ==
  IF newPassword = "" THEN [f |-> f, err |-> "", wrote |-> FALSE]
  ELSE LET ld == loadPasswords(f, fault)
       IN IF ld.err # "" THEN [f |-> f, err |-> "load passwords: " \o ld.err, wrote |-> FALSE]
          ELSE savePasswords(f, MapPut(ld.m, alias, EncryptPassword(newPassword, nonce)), fault)

GetServerPassword(f, alias, fault) ==
  LET ld == loadPasswords(f, fault)
  IN IF ld.err # "" THEN [val |-> EmptyString, err |-> "load passwords: " \o ld.err]
     ELSE IF alias \notin DOMAIN ld.m
     THEN [val |-> EmptyString, err |-> "password for server '" \o alias \o "' not found"]
     ELSE [val |-> ld.m[alias], err |-> ""]

DeleteServerPassword_KeepsEntry(f, alias, fault) ==
  LET ld == loadPasswords(f, fault)
  IN IF ld.err # "" THEN [f |-> f, err |-> "load passwords: " \o ld.err, wrote |-> FALSE]
     ELSE savePasswords(f, ld.m, fault)

DeleteServerPassword(f, alias, fault) ==
  LET ld == loadPasswords(f, fault)
  IN IF ld.err # "" THEN [f |-> f, err |-> "load passwords: " \o ld.err, wrote |-> FALSE]
     ELSE savePasswords(f, MapDelete(ld.m, alias), fault)

\* strings.Contains(err.Error(), "not found")
ContainsNotFound(err) == Contains(err, "not found")

HasPassword(f, alias, fault) ==
  LET r == GetServerPassword(f, alias, fault)
  IN IF r.err # ""
     THEN IF ContainsNotFound(r.err) THEN [val |-> FALSE, err |-> ""]
          ELSE [val |-> FALSE, err |-> r.err]
     ELSE [val |-> TRUE, err |-> ""]

GetDecryptedPassword(f, alias, fault) ==
  LET r == GetServerPassword(f, alias, fault)
  IN IF r.err # "" THEN [val |-> "", err |-> r.err]
     ELSE DecryptPassword(r.val)

(***************************************************************************)
(* The metadata store (metadataManager)                                    *)
(***************************************************************************)
ZeroMetadata == [SSHCount |-> 0, PinnedAt |-> 0, LastSeen |-> 0, Tags |-> <<>>]
Now == 1

loadAll(f, fault) ==
  IF f.st = "absent" THEN [m |-> EmptyMap, err |-> ""]
  ELSE IF fault = "metaLoad" THEN [m |-> EmptyMap, err |-> "read metadata"]
  ELSE IF f.st = "corrupt" THEN [m |-> EmptyMap, err |-> "parse metadata"]
  ELSE [m |-> f.m, err |-> ""]

saveAll(f, metadata, fault) ==
  IF fault = "metaSave" THEN [f |-> f, err |-> "write metadata", wrote |-> FALSE]
  ELSE [f |-> FileOf(metadata), err |-> "", wrote |-> TRUE]

\* on a rename starts the new alias from an empty record
updateServer_ForgetsOld(f, server, oldAlias, fault) ==
  LET ld == loadAll(f, fault)
  IN IF ld.err # "" THEN [f |-> f, err |-> ld.err, wrote |-> FALSE]
     ELSE LET existing == IF oldAlias = server.Alias /\ server.Alias \in DOMAIN ld.m
                          THEN ld.m[server.Alias] ELSE ZeroMetadata
          IN saveAll(f, MapPut(MapDelete(ld.m, oldAlias), server.Alias, existing), fault)

\* the record of oldAlias, when there is one, is carried to server.Alias first
updateServer(f, server, oldAlias, fault) ==
  LET ld == loadAll(f, fault)
  IN IF ld.err # "" THEN [f |-> f, err |-> ld.err, wrote |-> FALSE]
     ELSE LET moved == oldAlias # server.Alias /\ oldAlias \in DOMAIN ld.m
              existing == IF moved THEN ld.m[oldAlias]
                          ELSE IF server.Alias \in DOMAIN ld.m THEN ld.m[server.Alias]
                          ELSE ZeroMetadata
              m1 == IF moved THEN MapDelete(ld.m, oldAlias) ELSE ld.m
          IN saveAll(f, MapPut(m1, server.Alias, existing), fault)

deleteServer(f, alias, fault) ==
  LET ld == loadAll(f, fault)
  IN IF ld.err # "" THEN [f |-> f, err |-> ld.err, wrote |-> FALSE]
     ELSE saveAll(f, MapDelete(ld.m, alias), fault)

MetadataOf(m, alias) == IF alias \in DOMAIN m THEN m[alias] ELSE ZeroMetadata

setPinned(f, alias, pinned, fault) ==
  LET ld == loadAll(f, fault)
  IN IF ld.err # "" THEN [f |-> f, err |-> ld.err, wrote |-> FALSE]
     ELSE saveAll(f, MapPut(ld.m, alias,
                            [MetadataOf(ld.m, alias) EXCEPT !.PinnedAt = IF pinned THEN Now ELSE 0]),
                  fault)

\* starts the count again at every use
recordSSH_ResetsCount(f, alias, fault) ==
  LET ld == loadAll(f, fault)
  IN IF ld.err # "" THEN [f |-> f, err |-> ld.err, wrote |-> FALSE]
     ELSE saveAll(f, MapPut(ld.m, alias,
                            [MetadataOf(ld.m, alias) EXCEPT !.SSHCount = 1, !.LastSeen = Now]),
                  fault)

recordSSH(f, alias, fault) ==
  LET ld == loadAll(f, fault)
  IN IF ld.err # "" THEN [f |-> f, err |-> ld.err, wrote |-> FALSE]
     ELSE saveAll(f, MapPut(ld.m, alias,
                            [MetadataOf(ld.m, alias) EXCEPT !.SSHCount = @ + 1, !.LastSeen = Now]),
                  fault)

(***************************************************************************)
(* loadConfig / saveConfig as the facade sees them: the document or an     *)
(* error; a failed save leaves the file as it was (SpecFiles has the steps)*)
(***************************************************************************)
loadConfig(c, fault) ==
  IF fault = "cfgLoad" THEN [doc |-> <<>>, err |-> "failed to load config"]
  ELSE [doc |-> c, err |-> ""]

saveConfig(c, doc, fault) ==
  IF fault = "cfgSave" THEN [doc |-> c, err |-> "failed to save config", saved |-> FALSE]
  ELSE [doc |-> doc, err |-> "", saved |-> TRUE]

(***************************************************************************)
(* The facade (Repository)                                                 *)
(***************************************************************************)
Server(alias, password) ==
  [Alias |-> alias, Host |-> "h", User |-> "", Port |-> 22,
   IdentityFiles |-> <<>>, Password |-> password]

NoWrites == [cfgSaved |-> FALSE, secWrote |-> FALSE, metaWrote |-> FALSE,
             secErr |-> FALSE, metaErr |-> FALSE]

Rejected_WritesMetadata(op, alias, new, fault, err) ==
  /\ last' = [op |-> op, alias |-> alias, new |-> new, fault |-> fault, err |-> err]
               @@ [NoWrites EXCEPT !.metaWrote = TRUE]
  /\ metaFile' = FileOf(MapPut(metaFile.m, new, ZeroMetadata))
  /\ UNCHANGED <<cfg, secFile, fs, run, filePath, pm>>

Rejected_WritesSecret(op, alias, new, fault, err) ==
  /\ last' = [op |-> op, alias |-> alias, new |-> new, fault |-> fault, err |-> err]
               @@ [NoWrites EXCEPT !.secWrote = TRUE]
  /\ secFile' = FileOf(MapDelete(secFile.m, alias))
  /\ UNCHANGED <<cfg, metaFile, fs, run, filePath, pm>>

\* a call that returned before it reached any store
Rejected(op, alias, new, fault, err) ==
  /\ last' = [op |-> op, alias |-> alias, new |-> new, fault |-> fault, err |-> err] @@ NoWrites
  /\ UNCHANGED <<cfg, secFile, metaFile, fs, run, filePath, pm>>

\* a call that saved the config as doc and went on to the two sidecars;
\* it returns what the metadata manager returned
Committed(op, alias, new, fault, doc, pw, md) ==
  /\ cfg' = doc
  /\ secFile' = pw.f
  /\ metaFile' = md.f
  /\ last' = [op |-> op, alias |-> alias, new |-> new, fault |-> fault, err |-> md.err,
              cfgSaved |-> TRUE, secWrote |-> pw.wrote, metaWrote |-> md.wrote,
              secErr |-> pw.err # "", metaErr |-> md.err # ""]
  /\ UNCHANGED <<fs, run, filePath, pm>>

AddServer(server, nonce, fault) ==
  LET ld == loadConfig(cfg, fault)
  IN IF ld.err # "" THEN Rejected("AddServer", server.Alias, server.Alias, fault, ld.err)
     ELSE IF serverExists(ld.doc, server.Alias)
     THEN Rejected("AddServer", server.Alias, server.Alias, fault, "already exists")
     ELSE LET sv == saveConfig(cfg, Append(ld.doc, createHostFromServer(server)), fault)
          IN IF sv.err # "" THEN Rejected("AddServer", server.Alias, server.Alias, fault, sv.err)
             ELSE Committed("AddServer", server.Alias, server.Alias, fault, sv.doc,
                            UpdateServerPassword(secFile, server.Alias, server.Password, nonce, fault),
                            updateServer(metaFile, server, server.Alias, fault))

UpdateServer(server, newServer, nonce, fault) ==
  LET ld == loadConfig(cfg, fault)
      i == findHostByAlias(ld.doc, server.Alias)
  IN IF ld.err # "" THEN Rejected("UpdateServer", server.Alias, newServer.Alias, fault, ld.err)
     ELSE IF i = 0 THEN Rejected("UpdateServer", server.Alias, newServer.Alias, fault, "not found")
     ELSE IF server.Alias # newServer.Alias /\ serverExists(ld.doc, newServer.Alias)
     THEN Rejected("UpdateServer", server.Alias, newServer.Alias, fault, "already exists")
     ELSE LET host == IF server.Alias # newServer.Alias
                      THEN [ld.doc[i] EXCEPT !.Patterns = renamePatterns(@, server.Alias, newServer.Alias)]
                      ELSE ld.doc[i]
          IN \E updated \in {updateHostNodes(host, newServer, o) : o \in KeyOrders} :
               LET sv == saveConfig(cfg, [ld.doc EXCEPT ![i] = updated], fault)
               IN IF sv.err # "" THEN Rejected("UpdateServer", server.Alias, newServer.Alias, fault, sv.err)
                  ELSE Committed("UpdateServer", server.Alias, newServer.Alias, fault, sv.doc,
                                 UpdateServerPassword(secFile, newServer.Alias, newServer.Password, nonce, fault),
                                 updateServer(metaFile, newServer, server.Alias, fault))

DeleteServer(server, fault) ==
  LET ld == loadConfig(cfg, fault)
      hosts == removeHostByAlias(ld.doc, server.Alias)
  IN IF ld.err # "" THEN Rejected("DeleteServer", server.Alias, server.Alias, fault, ld.err)
     ELSE IF Len(hosts) = Len(ld.doc)
     THEN Rejected("DeleteServer", server.Alias, server.Alias, fault, "not found")
     ELSE LET sv == saveConfig(cfg, hosts, fault)
          IN IF sv.err # "" THEN Rejected("DeleteServer", server.Alias, server.Alias, fault, sv.err)
             ELSE Committed("DeleteServer", server.Alias, server.Alias, fault, sv.doc,
                            DeleteServerPassword(secFile, server.Alias, fault),
                            deleteServer(metaFile, server.Alias, fault))

\* SetPinned and RecordSSH go to the metadata manager alone
MetadataOnly(op, alias, fault, md) ==
  /\ metaFile' = md.f
  /\ last' = [op |-> op, alias |-> alias, new |-> alias, fault |-> fault, err |-> md.err,
              cfgSaved |-> FALSE, secWrote |-> FALSE, metaWrote |-> md.wrote,
              secErr |-> FALSE, metaErr |-> md.err # ""]
  /\ UNCHANGED <<cfg, secFile, fs, run, filePath, pm>>

SetPinned(alias, pinned, fault) ==
  MetadataOnly("SetPinned", alias, fault, setPinned(metaFile, alias, pinned, fault))

RecordSSH(alias, fault) ==
  MetadataOnly("RecordSSH", alias, fault, recordSSH(metaFile, alias, fault))

\* value of the first directive of the block with that key, "" when it has none
ValueOf(host, key) ==
  LET hit(i) == host.Nodes[i].Kind = "KV" /\ EqualFold(host.Nodes[i].Key, key)
  IN IF \E i \in 1..Len(host.Nodes) : hit(i)
     THEN host.Nodes[CHOOSE i \in 1..Len(host.Nodes) : hit(i) /\ \A j \in 1..(i - 1) : ~hit(j)].Value
     ELSE ""

\* one record per block, the first pattern its alias, all patterns its aliases,
\* host and user from the directives
toDomainServer(c) ==
  [i \in 1..Len(c) |-> [Alias |-> c[i].Patterns[1], Aliases |-> c[i].Patterns,
                        Host |-> ValueOf(c[i], "HostName"), User |-> ValueOf(c[i], "User")]]

\* each record overlaid with the metadata stored under its alias
mergeMetadata(servers, metadata) ==
  [i \in 1..Len(servers) |-> servers[i] @@ MetadataOf(metadata, servers[i].Alias)]

\* compares the fields with the query as it was typed
matchesQuery_CaseSensitive(server, query) ==
  \/ Contains(server.Host, query)
  \/ Contains(server.User, query)
  \/ \E i \in 1..Len(server.Tags) : Contains(server.Tags[i], query)
  \/ \E i \in 1..Len(server.Aliases) : Contains(server.Aliases[i], query)

\* query arrives lower-cased from filterServers
matchesQuery(server, query) ==
  LET fields == <<ToLower(server.Host), ToLower(server.User)>>
                  \o [i \in 1..Len(server.Tags) |-> ToLower(server.Tags[i])]
                  \o [i \in 1..Len(server.Aliases) |-> ToLower(server.Aliases[i])]
  IN \E i \in 1..Len(fields) : Contains(fields[i], query)

filterServers(servers, query) ==
  LET q == ToLower(query)
  IN SelectSeq(servers, LAMBDA server : matchesQuery(server, q))

\* gives up when the metadata cannot be loaded
ListServers_FailsOnMetadata(c, f, query, fault) ==
  LET ld == loadConfig(c, fault)
      md == loadAll(f, fault)
  IN IF ld.err # "" THEN [servers |-> <<>>, err |-> ld.err]
     ELSE IF md.err # "" THEN [servers |-> <<>>, err |-> md.err]
     ELSE [servers |-> mergeMetadata(toDomainServer(ld.doc), md.m), err |-> ""]

ListServers(c, f, query, fault) ==
  LET ld == loadConfig(c, fault)
      md == loadAll(f, fault)
      metadata == IF md.err # "" THEN EmptyMap ELSE md.m
      servers == mergeMetadata(toDomainServer(ld.doc), metadata)
  IN IF ld.err # "" THEN [servers |-> <<>>, err |-> ld.err]
     ELSE IF query = "" THEN [servers |-> servers, err |-> ""]
     ELSE [servers |-> filterServers(servers, query), err |-> ""]

\* the facade call: a read that hands back the records or the error
ListServersCall(query, fault) ==
  LET r == ListServers(cfg, metaFile, query, fault)
  IN /\ last' = [op |-> "ListServers", alias |-> "", new |-> "", fault |-> fault,
                 err |-> r.err, query |-> query, servers |-> r.servers] @@ NoWrites
     /\ UNCHANGED <<cfg, secFile, metaFile, fs, run, filePath, pm>>

(***************************************************************************)
(* Documents the config file may hold when the repository is opened: it is *)
(* the user's own, hand-edited file                                        *)
(***************************************************************************)
HandBlock(patterns, nodes) == [Patterns |-> patterns, Nodes |-> nodes, EOLComment |-> ""]

InitDocs ==
  { <<>>,
    <<HandBlock(<<"a">>, <<Comment("# jump box"), KV("Hostname", "h0"), KV("ProxyJump", "j")>>)>>,
    <<HandBlock(<<"a", "b">>, <<>>)>>,
    <<HandBlock(<<"a">>, <<KV("PORT", "2222")>>), HandBlock(<<"a">>, <<>>)>> }

\* filepath.Join(filepath.Dir(metaDataPath), "passwords.json")
DefaultPath == "/u/passwords.json"
NoPmCall == [op |-> "none", alias |-> "", password |-> "", envelope |-> EmptyString,
             fault |-> "none", text |-> EmptyString, val |-> "", has |-> FALSE,
             err |-> "", wrote |-> FALSE]

FsInit == [x \in {} |-> 0]
RunInit == [x \in {} |-> 0]

NoCall == [op |-> "none", alias |-> "", new |-> "", fault |-> "none", err |-> ""] @@ NoWrites

Init ==
  /\ cfg \in InitDocs
  /\ secFile = NoFile
  /\ metaFile \in {NoFile, CorruptFile}
  /\ last = NoCall
  /\ fs = FsInit
  /\ run = RunInit
  /\ filePath = DefaultPath
  /\ pm = NoPmCall

\* calls do not overlap: the caller makes the next call after it has taken the
\* result of the one before (last is what the call handed back)
Return ==
  /\ last.op # "none"
  /\ last' = NoCall
  /\ UNCHANGED <<cfg, secFile, metaFile, fs, run, filePath, pm>>

Call ==
  \/ \E a \in AliasSet, p \in PasswordSet, n \in NonceSet, f \in FaultSet :
       Len(cfg) < MaxHosts /\ AddServer(Server(a, p), n, f)
  \/ \E a \in AliasSet, b \in AliasSet, p \in PasswordSet, n \in NonceSet, f \in FaultSet :
       UpdateServer(Server(a, ""), Server(b, p), n, f)
  \/ \E a \in AliasSet, f \in FaultSet \ {"secSave"} : DeleteServer(Server(a, ""), f)
  \/ \E a \in AliasSet, f \in {"none", "metaLoad"} : SetPinned(a, TRUE, f)
  \/ \E a \in AliasSet, f \in {"none", "metaLoad"} :
       MetadataOf(metaFile.m, a).SSHCount < MaxCount /\ RecordSSH(a, f)

Next ==
  \/ last.op = "none" /\ Call
  \/ Return

Spec == Init /\ [][Next]_vars

(***************************************************************************)
(* SpecFiles: one config save and one password save, file-system step by   *)
(* file-system step.  A file is [exists, ver, len]: ver names the content  *)
(* (the document or mapping it was written from), len counts the chunks of *)
(* it that are on disk; the file is complete when len = FileLen.           *)
(***************************************************************************)
FileLen == 2          \* chunks a file is written in
MaxSaves == 12        \* config saves begun
MaxSecSaves == 2      \* password saves begun
MaxFaults == 1        \* failing file-system steps injected

MaxBackups == 10

File(ver, len) == [exists |-> TRUE, ver |-> ver, len |-> len]
Missing == [exists |-> FALSE, ver |-> 0, len |-> 0]
Complete(f) == f.exists /\ f.len = FileLen

InitFiles ==
  /\ cfg = <<>>
  /\ secFile = NoFile
  /\ metaFile = NoFile
  /\ last = NoCall
  /\ fs = [config |-> File(0, FileLen), tmp |-> Missing, orig |-> Missing,
           backups |-> <<>>, secret |-> Missing]
  /\ run = [pc |-> "idle", saving |-> "none", old |-> 0, new |-> 0, chunk |-> 0, clock |-> 1,
            begun |-> 0, saves |-> 0, secBegun |-> 0, faults |-> 0,
            backupFailed |-> FALSE, failedNow |-> FALSE, made |-> <<>>]
  /\ filePath = DefaultPath
  /\ pm = NoPmCall

Facade == <<cfg, secFile, metaFile, last, filePath, pm>>

MayFail == run.faults < MaxFaults

\* saveConfig(cfg): the new document is serialized and the backups are ensured
SaveConfigBegin ==
  /\ run.pc = "idle" /\ run.begun < MaxSaves
  /\ run' = [run EXCEPT !.pc = "original", !.saving = "config", !.old = fs.config.ver,
                        !.new = fs.config.ver + 1, !.begun = @ + 1, !.failedNow = FALSE]
  /\ UNCHANGED <<fs, Facade>>

\* copies the live file over the pristine backup on every save
OriginalBackup_Overwrites(f) == f.config

\* the pristine backup: copied from the live file when there is none yet
OriginalBackup(f) == IF f.orig.exists THEN f.orig ELSE f.config

CreateOriginalBackup ==
  /\ run.pc = "original"
  /\ \/ /\ fs' = [fs EXCEPT !.orig = OriginalBackup(fs)]
        /\ run' = [run EXCEPT !.pc = "timestamped"]
     \/ /\ MayFail /\ ~fs.orig.exists
        /\ fs' = fs
        /\ run' = [run EXCEPT !.pc = "timestamped", !.faults = @ + 1, !.backupFailed = TRUE,
                              !.failedNow = TRUE]
  /\ UNCHANGED Facade

\* a new timestamped backup of the live file, named by its creation time
WriteTimestampedBackup ==
  /\ run.pc = "timestamped"
  /\ \/ /\ fs' = [fs EXCEPT !.backups = Append(@, [ts |-> run.clock, data |-> fs.config])]
        /\ run' = [run EXCEPT !.pc = "prune", !.clock = @ + 1, !.made = Append(@, run.clock)]
     \/ /\ MayFail
        /\ fs' = fs
        /\ run' = [run EXCEPT !.pc = "prune", !.clock = @ + 1, !.faults = @ + 1,
                              !.backupFailed = TRUE, !.failedNow = TRUE]
  /\ UNCHANGED Facade

\* deletes the newest backups beyond the bound
PruneBackups_DropsNewest(backups) ==
  IF Len(backups) > MaxBackups THEN SubSeq(backups, 1, MaxBackups) ELSE backups

\* the timestamped backups in creation order, the oldest beyond the bound deleted
PruneBackups_KeepsOneMore(backups) ==
  IF Len(backups) > MaxBackups + 1
  THEN SubSeq(backups, Len(backups) - MaxBackups, Len(backups))
  ELSE backups

PruneBackups(backups) ==
  IF Len(backups) > MaxBackups
  THEN SubSeq(backups, Len(backups) - MaxBackups + 1, Len(backups))
  ELSE backups

CleanupOldBackups ==
  /\ run.pc = "prune"
  /\ \/ /\ fs' = [fs EXCEPT !.backups = PruneBackups(@)]
        /\ run' = [run EXCEPT !.pc = "temp"]
     \/ /\ MayFail /\ Len(fs.backups) > MaxBackups
        /\ fs' = fs
        /\ run' = [run EXCEPT !.pc = "temp", !.faults = @ + 1, !.backupFailed = TRUE,
                              !.failedNow = TRUE]
  /\ UNCHANGED Facade

\* atomicWrite: the file a chunk of the new content goes to
WriteTarget_InPlace == "config"

WriteTarget == "tmp"

TempCreate ==
  /\ run.pc = "temp"
  /\ fs' = [fs EXCEPT ![WriteTarget] = File(run.new, 0)]
  /\ run' = [run EXCEPT !.pc = "write"]
  /\ UNCHANGED Facade

TempWrite ==
  /\ run.pc = "write" /\ fs[WriteTarget].len < FileLen
  /\ fs' = [fs EXCEPT ![WriteTarget].len = @ + 1]
  /\ UNCHANGED <<run, Facade>>

\* a failure before the rename: the temp file is removed, the save returns the error
TempWriteFails ==
  /\ run.pc = "write" /\ MayFail
  /\ fs' = [fs EXCEPT !.tmp = Missing]
  /\ run' = [run EXCEPT !.pc = "idle", !.faults = @ + 1]
  /\ UNCHANGED Facade

TempRename ==
  /\ run.pc = "write" /\ fs[WriteTarget].len = FileLen
  /\ fs' = [fs EXCEPT !.config = fs[WriteTarget], !.tmp = Missing]
  /\ run' = [run EXCEPT !.pc = "idle", !.saves = @ + 1]
  /\ UNCHANGED Facade

\* savePasswords(passwords): os.WriteFile opens passwords.json with O_TRUNC and
\* writes the marshalled mapping into it
SavePasswordsBegin ==
  /\ run.pc = "idle" /\ run.secBegun < MaxSecSaves
  /\ run' = [run EXCEPT !.pc = "secOpen", !.saving = "secret", !.old = fs.secret.ver,
                        !.new = fs.secret.ver + 1, !.secBegun = @ + 1]
  /\ UNCHANGED <<fs, Facade>>

WriteFileOpen ==
  /\ run.pc = "secOpen"
  /\ fs' = [fs EXCEPT !.secret = File(run.new, 0)]
  /\ run' = [run EXCEPT !.pc = "secWrite"]
  /\ UNCHANGED Facade

WriteFileChunk ==
  /\ run.pc = "secWrite"
  /\ fs' = [fs EXCEPT !.secret.len = @ + 1]
  /\ run' = [run EXCEPT !.pc = IF fs.secret.len + 1 = FileLen THEN "idle" ELSE "secWrite"]
  /\ UNCHANGED Facade

WriteFileFails ==
  /\ run.pc \in {"secOpen", "secWrite"} /\ MayFail
  /\ run' = [run EXCEPT !.pc = "idle", !.faults = @ + 1]
  /\ UNCHANGED <<fs, Facade>>

\* the process stops between two steps; the files stay as they are
Crash ==
  /\ run.pc \notin {"idle", "crashed"}
  /\ run' = [run EXCEPT !.pc = "crashed"]
  /\ UNCHANGED <<fs, Facade>>

NextFiles ==
  \/ SaveConfigBegin
  \/ CreateOriginalBackup
  \/ WriteTimestampedBackup
  \/ CleanupOldBackups
  \/ TempCreate
  \/ TempWrite
  \/ TempWriteFails
  \/ TempRename
  \/ SavePasswordsBegin
  \/ WriteFileOpen
  \/ WriteFileChunk
  \/ WriteFileFails
  \/ Crash

SpecFiles == InitFiles /\ [][NextFiles]_vars

(***************************************************************************)
(* SpecMetadata: the calls that read or write the metadata alone, over the *)
(* documents the config file may hold                                      *)
(***************************************************************************)
MaxUses == 2          \* RecordSSH is offered while SSHCount is below this

MetadataCall ==
  \/ \E a \in AliasSet, pinned \in BOOLEAN, f \in {"none", "metaLoad"} : SetPinned(a, pinned, f)
  \/ \E a \in AliasSet, f \in {"none", "metaLoad"} :
       MetadataOf(metaFile.m, a).SSHCount < MaxUses /\ RecordSSH(a, f)
  \/ \E f \in {"none", "metaLoad", "cfgLoad"} : ListServersCall("", f)

NextMetadata ==
  \/ last.op = "none" /\ MetadataCall
  \/ Return

SpecMetadata == Init /\ [][NextMetadata]_vars

(***************************************************************************)
(* SpecDocument: the calls that read or rewrite the config document, with   *)
(* no fault, over hand-edited documents with several patterns per block,   *)
(* keys in any case, repeated directives and comments.  The caller first   *)
(* fills in the record (run holds it), then makes the call.                *)
(***************************************************************************)
MaxBlocks == 3        \* AddServer is offered while the document has fewer blocks
MaxCalls == 2         \* calls made on one document

DocAliasSet == {"a", "A", "b"}
QuerySet == {"", "WEB", "eb", "pro", "K", "q"}

Record(alias, host, user, port, files) ==
  [Alias |-> alias, Host |-> host, User |-> user, Port |-> port,
   IdentityFiles |-> files, Password |-> ""]

RecordSet ==
  {Record(a, h, u, p, k) : a \in AliasSet, h \in {"", "Web"}, u \in {"", "u"},
                           p \in {0, 22}, k \in {<<>>, <<"k1", "", "k2">>}}

DocumentDocs ==
  InitDocs \cup
  { <<HandBlock(<<"x", "a", "y">>,
                <<Comment("# c"), KV("hostname", "Web"), KV("IDENTITYFILE", "k0"),
                  KV("ProxyJump", "j"), KV("identityfile", "k9"), KV("USER", "Root"),
                  KV("user", "r2"), Comment("")>>),
      HandBlock(<<"A">>, <<KV("HostName", "db")>>),
      HandBlock(<<"a", "z">>, <<KV("Port", "1")>>)>>,
    <<HandBlock(<<"b">>, <<KV("IdentityFile", "k0"), KV("LocalForward", "1"),
                          KV("LocalForward", "2")>>),
      HandBlock(<<"a", "a">>, <<KV("Port", "7")>>)>> }

TaggedFile ==
  FileOf([alias \in {"x", "a"} |->
            [ZeroMetadata EXCEPT !.Tags = IF alias = "x" THEN <<"Prod">> ELSE <<"eu", "K">>]])

NoRecord == [op |-> "none", alias |-> "", record |-> Record("", "", "", 0, <<>>),
             query |-> "", calls |-> 0]

InitDocument ==
  /\ cfg \in DocumentDocs
  /\ secFile = NoFile
  /\ metaFile \in {NoFile, TaggedFile}
  /\ last = NoCall
  /\ fs = FsInit
  /\ run = NoRecord
  /\ filePath = DefaultPath
  /\ pm = NoPmCall

\* the caller chooses the call and its arguments
Prepare ==
  /\ last.op = "none" /\ run.op = "none" /\ run.calls < MaxCalls
  /\ \/ \E r \in RecordSet :
          /\ Len(cfg) < MaxBlocks
          /\ run' = [run EXCEPT !.op = "AddServer", !.alias = r.Alias, !.record = r,
                                !.calls = @ + 1]
     \/ \E a \in DocAliasSet, r \in RecordSet :
          run' = [run EXCEPT !.op = "UpdateServer", !.alias = a, !.record = r, !.calls = @ + 1]
     \/ \E a \in DocAliasSet :
          run' = [run EXCEPT !.op = "DeleteServer", !.alias = a, !.calls = @ + 1]
     \/ \E q \in QuerySet :
          run' = [run EXCEPT !.op = "ListServers", !.query = q, !.calls = @ + 1]
  /\ UNCHANGED <<cfg, secFile, metaFile, last, fs, filePath, pm>>

DocumentCall ==
  /\ last.op = "none"
  /\ \/ run.op = "AddServer" /\ AddServer(run.record, 0, "none")
     \/ run.op = "UpdateServer" /\ UpdateServer(Server(run.alias, ""), run.record, 0, "none")
     \/ run.op = "DeleteServer" /\ DeleteServer(Server(run.alias, ""), "none")
     \/ run.op = "ListServers" /\ ListServersCall(run.query, "none")

\* the caller takes the result
DocumentReturn ==
  /\ last.op # "none"
  /\ last' = NoCall
  /\ run' = [run EXCEPT !.op = "none"]
  /\ UNCHANGED <<cfg, secFile, metaFile, fs, filePath, pm>>

NextDocument ==
  \/ Prepare
  \/ DocumentCall
  \/ DocumentReturn

SpecDocument == InitDocument /\ [][NextDocument]_vars

(***************************************************************************)
(* SpecSteps: AddServer, UpdateServer and DeleteServer store by store.  A    *)
(* call loads and edits the document in memory, then goes through its       *)
(* three stores in the order of its statements; the process may die         *)
(* between any two of them.  run is the running call and how far it got.    *)
(***************************************************************************)
StepFaultSet == {"none", "cfgLoad", "cfgSave", "secSave", "metaLoad"}

\* the password manager ahead of saveConfig
StepOrder_SecretFirst == <<"secret", "config", "metadata">>

\* saveConfig, then the password manager, then the metadata manager
StepOrder == <<"config", "secret", "metadata">>

Idle == [op |-> "none", alias |-> "", record |-> Server("", ""), fault |-> "none",
         pc |-> 0, doc |-> <<>>, saved |-> FALSE, err |-> ""] @@ NoWrites

InitSteps ==
  /\ cfg \in InitDocs
  /\ secFile = NoFile
  /\ metaFile \in {NoFile, CorruptFile}
  /\ last = NoCall
  /\ fs = FsInit
  /\ run = Idle
  /\ filePath = DefaultPath
  /\ pm = NoPmCall

\* what the call has in memory when it reaches saveConfig: the edited document,
\* or the error it returns instead
Planned(op, alias, record, fault) ==
  LET ld == loadConfig(cfg, fault)
      i == findHostByAlias(ld.doc, alias)
      host == IF alias # record.Alias
              THEN [ld.doc[i] EXCEPT !.Patterns = renamePatterns(@, alias, record.Alias)]
              ELSE ld.doc[i]
  IN IF ld.err # "" THEN {[doc |-> <<>>, err |-> ld.err]}
     ELSE IF op = "AddServer"
     THEN IF serverExists(ld.doc, record.Alias) THEN {[doc |-> <<>>, err |-> "already exists"]}
          ELSE {[doc |-> Append(ld.doc, createHostFromServer(record)), err |-> ""]}
     ELSE IF op = "UpdateServer"
     THEN IF i = 0 THEN {[doc |-> <<>>, err |-> "not found"]}
          ELSE IF alias # record.Alias /\ serverExists(ld.doc, record.Alias)
          THEN {[doc |-> <<>>, err |-> "already exists"]}
          ELSE {[doc |-> [ld.doc EXCEPT ![i] = updateHostNodes(host, record, o)], err |-> ""] :
                  o \in KeyOrders}
     ELSE IF Len(removeHostByAlias(ld.doc, alias)) = Len(ld.doc)
          THEN {[doc |-> <<>>, err |-> "not found"]}
          ELSE {[doc |-> removeHostByAlias(ld.doc, alias), err |-> ""]}

Returned(r, err) ==
  [op |-> r.op, alias |-> r.alias, new |-> r.record.Alias, fault |-> r.fault, err |-> err,
   cfgSaved |-> r.saved, secWrote |-> r.secWrote, metaWrote |-> r.metaWrote,
   secErr |-> r.secErr, metaErr |-> r.metaErr]

BeginCall ==
  /\ run.op = "none" /\ last.op = "none"
  /\ \E op \in {"AddServer", "UpdateServer", "DeleteServer"}, a \in AliasSet, b \in AliasSet,
        p \in {"", "p"}, f \in StepFaultSet :
       /\ op = "AddServer" => a = b /\ Len(cfg) < MaxHosts
       /\ op = "DeleteServer" => a = b /\ p = ""
       /\ \E plan \in Planned(op, a, Server(b, p), f) :
            LET r == [Idle EXCEPT !.op = op, !.alias = a, !.record = Server(b, p),
                                  !.fault = f, !.doc = plan.doc, !.pc = 1]
            IN IF plan.err # ""
               THEN last' = Returned(r, plan.err) /\ UNCHANGED run
               ELSE run' = r /\ UNCHANGED last
  /\ UNCHANGED <<cfg, secFile, metaFile, fs, filePath, pm>>

AtStep(name) == run.op # "none" /\ run.pc \in 1..3 /\ StepOrder[run.pc] = name

ConfigStep ==
  /\ AtStep("config")
  /\ LET sv == saveConfig(cfg, run.doc, run.fault)
     IN IF sv.err # ""
        THEN last' = Returned(run, sv.err) /\ run' = Idle /\ UNCHANGED cfg
        ELSE cfg' = sv.doc /\ run' = [run EXCEPT !.pc = @ + 1, !.saved = TRUE] /\ UNCHANGED last
  /\ UNCHANGED <<secFile, metaFile, fs, filePath, pm>>

SecretStep ==
  /\ AtStep("secret")
  /\ LET pw == IF run.op = "DeleteServer"
               THEN DeleteServerPassword(secFile, run.alias, run.fault)
               ELSE UpdateServerPassword(secFile, run.record.Alias, run.record.Password, 0, run.fault)
     IN /\ secFile' = pw.f
        /\ run' = [run EXCEPT !.pc = @ + 1, !.secWrote = pw.wrote, !.secErr = pw.err # ""]
  /\ UNCHANGED <<cfg, metaFile, last, fs, filePath, pm>>

MetadataStep ==
  /\ AtStep("metadata")
  /\ LET md == IF run.op = "DeleteServer" THEN deleteServer(metaFile, run.alias, run.fault)
               ELSE IF run.op = "UpdateServer"
                    THEN updateServer(metaFile, run.record, run.alias, run.fault)
               ELSE updateServer(metaFile, run.record, run.record.Alias, run.fault)
     IN /\ metaFile' = md.f
        /\ run' = [run EXCEPT !.pc = @ + 1, !.metaWrote = md.wrote, !.metaErr = md.err # "",
                              !.err = md.err]
  /\ UNCHANGED <<cfg, secFile, last, fs, filePath, pm>>

\* the call returns what the metadata manager returned
EndCall ==
  /\ run.op # "none" /\ run.pc = 4
  /\ last' = Returned(run, run.err)
  /\ run' = Idle
  /\ UNCHANGED <<cfg, secFile, metaFile, fs, filePath, pm>>

\* the process dies between two steps: what is on disk stays
Killed ==
  /\ run.op # "none"
  /\ run' = Idle
  /\ last' = NoCall
  /\ UNCHANGED <<cfg, secFile, metaFile, fs, filePath, pm>>

TakeResult ==
  /\ last.op # "none"
  /\ last' = NoCall
  /\ UNCHANGED <<cfg, secFile, metaFile, fs, run, filePath, pm>>

\* SetPinned has no config step: it goes to the metadata manager alone
PinBetweenCalls ==
  \E a \in AliasSet : run.op = "none" /\ last.op = "none" /\ SetPinned(a, TRUE, "none")

NextSteps ==
  \/ BeginCall
  \/ ConfigStep
  \/ SecretStep
  \/ MetadataStep
  \/ EndCall
  \/ Killed
  \/ TakeResult
  \/ PinBetweenCalls

SpecSteps == InitSteps /\ [][NextSteps]_vars

(***************************************************************************)
(* SpecOverlap: two callers whose calls on the secret mapping and on the    *)
(* metadata mapping overlap.  A call is two steps, the load of the whole    *)
(* mapping and the save of the whole mapping; nothing orders the steps of   *)
(* one caller against those of the other.                                   *)
(***************************************************************************)
MaxWrites == 3        \* saves made by the two callers together

Callers == {1, 2}
OverlapOps == {"UpdateServerPassword", "DeleteServerPassword", "recordSSH"}

OnSecrets(op) == op \in {"UpdateServerPassword", "DeleteServerPassword"}

\* seen is the mapping the caller loaded, touched the aliases other callers
\* have saved since, done the call it completed last
IdleCaller == [op |-> "none", alias |-> "", pc |-> "idle", seen |-> NoFile, touched |-> {},
               done |-> "none", doneAlias |-> ""]

InitOverlap ==
  /\ cfg \in InitDocs
  /\ secFile = NoFile
  /\ metaFile = NoFile
  /\ last = NoCall
  /\ fs = FsInit
  /\ run = [callers |-> [c \in Callers |-> IdleCaller], writes |-> 0]
  /\ filePath = DefaultPath
  /\ pm = NoPmCall

\* loadPasswords / loadAll: the caller now holds the mapping as it is on disk
LoadStep(c) ==
  /\ run.callers[c].pc = "idle" /\ run.writes < MaxWrites
  /\ \E op \in OverlapOps, a \in AliasSet :
       /\ op = "recordSSH" => MetadataOf(metaFile.m, a).SSHCount < MaxUses
       /\ run' = [run EXCEPT !.callers[c] =
                    [@ EXCEPT !.op = op, !.alias = a, !.pc = "loaded",
                              !.seen = IF OnSecrets(op) THEN secFile ELSE metaFile,
                              !.touched = {}]]
  /\ UNCHANGED <<cfg, secFile, metaFile, last, fs, filePath, pm>>

\* reads the file again when it saves
Seen_Fresh(c) == IF OnSecrets(run.callers[c].op) THEN secFile ELSE metaFile

\* the mapping the caller edits is the one it loaded
Seen(c) == run.callers[c].seen

\* the single entry is changed in the loaded mapping and the whole mapping saved
SaveStep(c) ==
  /\ run.callers[c].pc = "loaded"
  /\ LET me == run.callers[c]
         res == CASE me.op = "UpdateServerPassword"
                       -> UpdateServerPassword(Seen(c), me.alias, "p", run.writes, "none")
                  [] me.op = "DeleteServerPassword"
                       -> DeleteServerPassword(Seen(c), me.alias, "none")
                  [] OTHER -> recordSSH(Seen(c), me.alias, "none")
     IN /\ IF OnSecrets(me.op)
           THEN secFile' = (IF res.wrote THEN res.f ELSE secFile) /\ UNCHANGED metaFile
           ELSE metaFile' = (IF res.wrote THEN res.f ELSE metaFile) /\ UNCHANGED secFile
        /\ run' = [callers |->
                     [d \in Callers |->
                        IF d = c
                        THEN [me EXCEPT !.op = "none", !.pc = "idle", !.seen = NoFile,
                                        !.touched = {}, !.done = me.op, !.doneAlias = me.alias]
                        ELSE IF run.callers[d].pc = "loaded"
                                /\ OnSecrets(run.callers[d].op) = OnSecrets(me.op)
                        THEN [run.callers[d] EXCEPT !.touched = @ \cup {me.alias}]
                        ELSE run.callers[d]],
                   writes |-> run.writes + 1]
  /\ UNCHANGED <<cfg, last, fs, filePath, pm>>

NextOverlap ==
  \/ \E c \in Callers : LoadStep(c)
  \/ \E c \in Callers : SaveStep(c)

SpecOverlap == InitOverlap /\ [][NextOverlap]_vars

(***************************************************************************)
(* SpecSecrets: the PasswordManager on its own, one action per method call, *)
(* for any store path and any string handed to DecryptPassword             *)
(***************************************************************************)
PathSet == {DefaultPath, "/not found/passwords.json"}
PmNonceSet == {0, 1}
PmFaultSet == {"none", "secRead", "secSave", "secTorn"}

\* the envelopes EncryptPassword produces under this store path
Genuine == {EncryptPassword(p, n) : p \in PasswordSet, n \in PmNonceSet}

\* one byte of the ciphertext body, of the tag, of the nonce altered
FlipBody(e) == [e EXCEPT !.bytes[NonceSize + 1].pt = @ \o "~"]
FlipTag(e) == [e EXCEPT !.bytes[NonceSize + 2].over.pt = @ \o "~"]
FlipNonce(e) == [e EXCEPT !.bytes[1] = 1 - @]
Truncate(e, n) == [e EXCEPT !.bytes = SubSeq(@, 1, n)]
\* the same envelope sealed by a store at another path
Rekey(e, key) == [e EXCEPT !.bytes[NonceSize + 1].k = key,
                           !.bytes[NonceSize + 2].k = key,
                           !.bytes[NonceSize + 2].over.k = key]
ForeignKeys == {<<"sha256", path \o "lazyssh-password-encryption-key">> : path \in PathSet \ {filePath}}

Tampered ==
  UNION { {FlipBody(e), FlipTag(e), FlipNonce(e),
           Truncate(e, NonceSize - 1), Truncate(e, NonceSize), Truncate(e, NonceSize + 1)}
          \cup {Rekey(e, k) : k \in ForeignKeys} : e \in Genuine }
    \cup {PlainText(p) : p \in PasswordSet \ {""}}
    \cup {EmptyString}

\* passwords.json as the repository may find it: missing, or holding for "a" a
\* string that is not an envelope of this store
FoundFiles ==
  {NoFile, FileOf([alias \in {"a"} |-> PlainText("p")]),
   FileOf([alias \in {"a"} |-> FlipTag(EncryptPassword("p", 0))])}

InitSecrets ==
  /\ cfg = <<>>
  /\ metaFile = NoFile
  /\ last = NoCall
  /\ fs = FsInit
  /\ run = RunInit
  /\ filePath \in PathSet
  /\ secFile \in FoundFiles
  /\ pm = NoPmCall

\* text: a stored string handed back, val: a plaintext handed back, has: a yes/no
PmCall(op, alias, password, envelope, fault, text, val, has, err, wrote) ==
  pm' = [op |-> op, alias |-> alias, password |-> password, envelope |-> envelope,
         fault |-> fault, text |-> text, val |-> val, has |-> has, err |-> err,
         wrote |-> wrote]

PmRest == <<cfg, metaFile, last, fs, run, filePath>>

PmEncryptPassword ==
  \E p \in PasswordSet, n \in PmNonceSet :
     /\ PmCall("EncryptPassword", "", p, EmptyString, "none", EncryptPassword(p, n), "", FALSE,
               "", FALSE)
     /\ UNCHANGED <<secFile, PmRest>>

PmDecryptPassword ==
  \E e \in Genuine \cup Tampered :
     LET r == DecryptPassword(e)
     IN /\ PmCall("DecryptPassword", "", "", e, "none", EmptyString, r.val, FALSE, r.err, FALSE)
        /\ UNCHANGED <<secFile, PmRest>>

PmUpdateServerPassword ==
  \E a \in AliasSet, p \in PasswordSet, n \in PmNonceSet, f \in PmFaultSet :
     LET r == UpdateServerPassword(secFile, a, p, n, f)
     IN /\ PmCall("UpdateServerPassword", a, p, EmptyString, f, EmptyString, "", FALSE, r.err, r.wrote)
        /\ secFile' = r.f
        /\ UNCHANGED PmRest

PmGetServerPassword ==
  \E a \in AliasSet, f \in {"none", "secRead"} :
     LET r == GetServerPassword(secFile, a, f)
     IN /\ PmCall("GetServerPassword", a, "", EmptyString, f, r.val, "", FALSE, r.err, FALSE)
        /\ secFile' = ReadFile(secFile)
        /\ UNCHANGED PmRest

PmDeleteServerPassword ==
  \E a \in AliasSet, f \in PmFaultSet :
     LET r == DeleteServerPassword(secFile, a, f)
     IN /\ PmCall("DeleteServerPassword", a, "", EmptyString, f, EmptyString, "", FALSE, r.err, r.wrote)
        /\ secFile' = r.f
        /\ UNCHANGED PmRest

PmHasPassword ==
  \E a \in AliasSet, f \in {"none", "secRead"} :
     LET r == HasPassword(secFile, a, f)
     IN /\ PmCall("HasPassword", a, "", EmptyString, f, EmptyString, "", r.val, r.err, FALSE)
        /\ secFile' = ReadFile(secFile)
        /\ UNCHANGED PmRest

PmGetDecryptedPassword ==
  \E a \in AliasSet, f \in {"none", "secRead"} :
     LET r == GetDecryptedPassword(secFile, a, f)
     IN /\ PmCall("GetDecryptedPassword", a, "", EmptyString, f, EmptyString, r.val, FALSE, r.err, FALSE)
        /\ secFile' = ReadFile(secFile)
        /\ UNCHANGED PmRest

NextSecrets ==
  \/ PmEncryptPassword
  \/ PmDecryptPassword
  \/ PmUpdateServerPassword
  \/ PmGetServerPassword
  \/ PmDeleteServerPassword
  \/ PmHasPassword
  \/ PmGetDecryptedPassword

SpecSecrets == InitSecrets /\ [][NextSecrets]_vars

(***************************************************************************)
(* Properties of the facade, checked under Spec                            *)
(***************************************************************************)
CfgOps == {"AddServer", "UpdateServer", "DeleteServer"}

\* the blocks of document c that have alias among their patterns
BlocksOf(c, alias) ==
  {i \in 1..Len(c) : \E k \in 1..Len(c[i].Patterns) : c[i].Patterns[k] = alias}

InDoc(c, alias) == BlocksOf(c, alias) # {}

ListedAliases(c, f) ==
  LET servers == ListServers(c, f, "", "none").servers
  IN UNION {{servers[i].Aliases[k] : k \in 1..Len(servers[i].Aliases)} : i \in 1..Len(servers)}

NoStoreFailed(l) == l.err = "" /\ ~l.secErr /\ ~l.metaErr

StoresUntouched(l) ==
  /\ ~l.cfgSaved /\ ~l.secWrote /\ ~l.metaWrote
  /\ UNCHANGED <<cfg, secFile, metaFile>>

\* C1: a successful UpdateServer that renames, with no store failing, leaves the
\* metadata record and the secret of the old alias under the new alias (same
\* record; HasPassword(new) true; the same plaintext when no new password was
\* written) and nothing under the old alias in either store.
C1_RenameMovesMetadataAndSecret ==
  [][ (last'.op = "UpdateServer" /\ last'.alias # last'.new /\ last'.cfgSaved
         /\ NoStoreFailed(last'))
      => LET old == last'.alias
             new == last'.new
         IN /\ old \in DOMAIN metaFile.m
                 => new \in DOMAIN metaFile'.m /\ metaFile'.m[new] = metaFile.m[old]
            /\ old \notin DOMAIN metaFile'.m
            /\ HasPassword(secFile, old, "none").val
                 => /\ HasPassword(secFile', new, "none").val
                    /\ ~last'.secWrote
                         => GetDecryptedPassword(secFile', new, "none").val
                              = GetDecryptedPassword(secFile, old, "none").val
            /\ ~HasPassword(secFile', old, "none").val ]_vars

UniqueIdentities(c) == \A alias \in AliasSet : Cardinality(BlocksOf(c, alias)) <= 1

\* C2: identity uniqueness is preserved by every call, accepted or rejected: if
\* no alias is in the pattern list of two blocks before the call, none is after.
C2_UniquenessPreserved ==
  [][UniqueIdentities(cfg) => UniqueIdentities(cfg')]_vars

C2_Witness ==
  /\ last.op = "UpdateServer" /\ last.alias # last.new /\ last.err = ""
  /\ Len(cfg) = 2 /\ UniqueIdentities(cfg)

\* C3: AddServer with an alias the loaded config already has returns the
\* already-exists error; the config is unchanged and nothing is saved or written.
C3_AddExistingRejected ==
  [][ (last'.op = "AddServer" /\ last'.fault # "cfgLoad" /\ InDoc(cfg, last'.alias))
      => last'.err = "already exists" /\ StoresUntouched(last') ]_vars

C3_Witness ==
  last.op = "AddServer" /\ last.err = "already exists" /\ InDoc(cfg, last.alias)

\* C4: UpdateServer of an alias no block has, UpdateServer renaming to an alias
\* the config already has, and DeleteServer of an alias no block has each return
\* an error and leave config, metadata and secrets exactly as they were.
C4_RejectedTouchesNoStore ==
  [][ /\ (last'.op \in {"UpdateServer", "DeleteServer"} /\ last'.fault # "cfgLoad"
            /\ ~InDoc(cfg, last'.alias))
         => last'.err = "not found" /\ StoresUntouched(last')
      /\ (last'.op = "UpdateServer" /\ last'.fault # "cfgLoad" /\ InDoc(cfg, last'.alias)
            /\ last'.alias # last'.new /\ InDoc(cfg, last'.new))
         => last'.err = "already exists" /\ StoresUntouched(last') ]_vars

C4_Witness ==
  /\ last.op = "UpdateServer" /\ last.err = "already exists"
  /\ last.alias # last.new /\ InDoc(cfg, last.alias) /\ InDoc(cfg, last.new)
  /\ secFile.st = "ok" /\ DOMAIN metaFile.m # {}

DeletedEverywhere(alias) ==
  /\ ~InDoc(cfg', alias)
  /\ alias \notin ListedAliases(cfg', metaFile')
  /\ alias \notin DOMAIN metaFile'.m
  /\ ~HasPassword(secFile', alias, "none").val

\* C5: after a successful DeleteServer with no store failing the alias
\* is in no block, is not listed, has no metadata record and no password.
C5_DeleteRemovesFromAllStores ==
  [][ (last'.op = "DeleteServer" /\ last'.cfgSaved /\ NoStoreFailed(last'))
      => DeletedEverywhere(last'.alias) ]_vars

\* C5, unique block: the same holds for an alias that exactly one block had before the call
\* (DeleteServer removes the first matching block only).
C5_DeleteRemovesUniqueFromAllStores ==
  [][ (last'.op = "DeleteServer" /\ last'.cfgSaved /\ NoStoreFailed(last')
         /\ Cardinality(BlocksOf(cfg, last'.alias)) = 1)
      => DeletedEverywhere(last'.alias) ]_vars

C5_Witness ==
  /\ last.op = "DeleteServer" /\ last.cfgSaved /\ NoStoreFailed(last)
  /\ last.secWrote /\ last.metaWrote
  /\ ~InDoc(cfg, last.alias) /\ cfg # <<>>

\* C6: once the config save has succeeded, AddServer, UpdateServer and
\* DeleteServer report success whatever the metadata and secret stores did.
C6_SidecarFailureSwallowed ==
  (last.op \in CfgOps /\ last.cfgSaved) => last.err = ""

\* C7: when loading or saving the config fails, the call returns an error and
\* writes neither the secret store nor the metadata store.
C7_ConfigErrorsAuthoritative ==
  [][ (last'.op \in CfgOps /\ last'.fault \in {"cfgLoad", "cfgSave"})
      => /\ last'.err # ""
         /\ ~last'.secWrote /\ ~last'.metaWrote
         /\ UNCHANGED <<cfg, secFile, metaFile>> ]_vars

C7_Witness ==
  /\ last.op \in CfgOps /\ last.fault = "cfgSave" /\ last.err = "failed to save config"
  /\ secFile.st = "ok"

C17_EmptyPasswordNoOp ==
  [][ /\ \A a \in AliasSet, f \in FaultSet \cup {"secRead"} :
           UpdateServerPassword(secFile, a, "", 0, f) = [f |-> secFile, err |-> "", wrote |-> FALSE]
      /\ last'.op \in {"AddServer", "UpdateServer"}
           => \A n \in NonceSet :
                (\/ AddServer(Server(last'.alias, ""), n, last'.fault)
                 \/ UpdateServer(Server(last'.alias, ""), Server(last'.new, ""), n, last'.fault))
                => (secFile' = secFile /\ ~last'.secWrote /\ ~last'.secErr) ]_vars

\* an update without a password went through while a password write would have
\* failed, and the password the record had is still there
C17_Witness ==
  /\ last.op = "UpdateServer" /\ last.cfgSaved /\ last.fault = "secTorn"
  /\ ~last.secWrote /\ ~last.secErr
  /\ GetDecryptedPassword(secFile, last.new, "none") = [val |-> "p", err |-> ""]

\* the SSHCount ListServers reports for the record of block i
ReportedCount(c, f, i) == ListServers(c, f, "", "none").servers[i].SSHCount

\* the block a committed DeleteServer took out of the document, 0 for other steps
RemovedBlock(c, l) ==
  IF l.op = "DeleteServer" /\ l.cfgSaved /\ InDoc(c, l.alias)
  THEN CHOOSE i \in BlocksOf(c, l.alias) : \A j \in BlocksOf(c, l.alias) : i <= j
  ELSE 0

\* every record that is still there after the call reports at least the count
\* it reported before it; a record is followed by its block, which keeps its
\* place through a rename
CountsKept ==
  \A i \in 1..Len(cfg) :
    LET k == RemovedBlock(cfg, last')
        j == IF k = 0 \/ i < k THEN i ELSE i - 1
    IN (i # k /\ ~(k # 0 /\ cfg[i].Patterns[1] = last'.alias))
       => /\ j <= Len(cfg')
          /\ ReportedCount(cfg', metaFile', j) >= ReportedCount(cfg, metaFile, i)

SecretsCovered(c, f) == \A alias \in DOMAIN f.m : InDoc(c, alias)

\* C30: a call in which no store fails keeps every entry of the secret store
\* under the alias of a record that is in the config.
C30_NoOrphanSecrets ==
  [][ (last'.op \in CfgOps /\ last'.fault = "none" /\ NoStoreFailed(last')
         /\ SecretsCovered(cfg, secFile))
      => SecretsCovered(cfg', secFile') ]_vars

(***************************************************************************)
(* Properties of the saves, checked under SpecFiles                        *)
(***************************************************************************)
\* C8: at every point of a config save, and after a crash at any point of it,
\* the file at the config path is complete and holds the content from before
\* the save or the new content.
C8_ConfigSaveAtomic ==
  /\ Complete(fs.config)
  /\ run.saving = "config" => fs.config.ver \in {run.old, run.new}

\* crashed between the last chunk of the temp file and the rename
C8_Witness ==
  /\ run.pc = "crashed" /\ run.saving = "config"
  /\ Complete(fs.tmp) /\ fs.tmp.ver = run.new /\ run.new # run.old
  /\ fs.config = File(run.old, FileLen)

\* what loadPasswords makes of the file a reader finds: no file or no bytes is
\* the empty mapping (version 0), part of a mapping does not parse
ReadPasswords(f) ==
  IF ~f.exists \/ f.len = 0 THEN [err |-> "", ver |-> 0]
  ELSE IF f.len < FileLen THEN [err |-> "parse passwords JSON", ver |-> 0]
  ELSE [err |-> "", ver |-> f.ver]

\* C9: at every point of a save of the secret mapping, interrupted or not, a
\* reader of passwords.json gets the complete old or the complete new mapping.
C9_SecretSaveAtomic ==
  run.saving = "secret"
    => ReadPasswords(fs.secret) \in {[err |-> "", ver |-> run.old], [err |-> "", ver |-> run.new]}

Stamps(backups) == [i \in 1..Len(backups) |-> backups[i].ts]

LastOf(seq, n) == IF Len(seq) > n THEN SubSeq(seq, Len(seq) - n + 1, Len(seq)) ELSE seq

Retained ==
  /\ Len(fs.backups) <= MaxBackups
  /\ run.saves > MaxBackups
       => /\ Len(fs.backups) = MaxBackups
          /\ Stamps(fs.backups) = LastOf(run.made, MaxBackups)
          /\ Complete(fs.orig)

C12_BackupBeforeChange ==
  [][ (fs.config' # fs.config /\ ~run.failedNow)
      => \E i \in 1..Len(fs'.backups) : fs'.backups[i].data = fs.config ]_vars

C12_Witness ==
  /\ run.pc = "idle" /\ run.saves > MaxBackups /\ run.faults > 0 /\ ~run.failedNow
  /\ \E i \in 1..Len(fs.backups) : fs.backups[i].data.ver = fs.config.ver - 1

(***************************************************************************)
(* Properties of the PasswordManager, checked under SpecSecrets            *)
(***************************************************************************)
\* C14: for every non-empty password p, DecryptPassword(EncryptPassword(p)) is
\* p; after a successful UpdateServerPassword(server, p) decrypting what
\* GetServerPassword(server.Alias) returns gives p; and what the file holds is
\* an envelope, not p.
C14_SecretRoundTrip ==
  [][ /\ (pm'.op = "EncryptPassword" /\ pm'.password # "")
           => /\ DecryptPassword(pm'.text) = [val |-> pm'.password, err |-> ""]
              /\ pm'.text # PlainText(pm'.password)
      /\ (pm'.op = "UpdateServerPassword" /\ pm'.password # "" /\ pm'.err = "")
           => LET got == GetServerPassword(secFile', pm'.alias, "none")
              IN /\ got.err = ""
                 /\ DecryptPassword(got.val) = [val |-> pm'.password, err |-> ""]
                 /\ secFile'.m[pm'.alias] # PlainText(pm'.password)
                 /\ secFile'.m[pm'.alias].b64
                 /\ Len(secFile'.m[pm'.alias].bytes) > NonceSize ]_vars

\* a second password stored for an alias that had one, read back
C14_Witness ==
  /\ pm.op = "UpdateServerPassword" /\ pm.password = "q" /\ pm.err = "" /\ pm.wrote
  /\ DOMAIN secFile.m = AliasSet
  /\ GetDecryptedPassword(secFile, pm.alias, "none").val = "q"
  /\ \E b \in AliasSet : GetDecryptedPassword(secFile, b, "none").val = "p"

\* C15: DecryptPassword of a string that EncryptPassword did not produce under
\* this store path (a byte of the envelope altered, fewer than 12 decoded bytes,
\* a cut ciphertext, not base64, sealed under another path) returns an error and
\* the empty string.
C15_DecryptRejectsTampered ==
  [][ (pm'.op = "DecryptPassword" /\ pm'.envelope \notin Genuine)
      => (pm'.err # "" /\ pm'.val = "") ]_vars

C15_Witness ==
  /\ pm.op = "DecryptPassword" /\ pm.err = "cipher: message authentication failed"
  /\ pm.envelope.b64 /\ Len(pm.envelope.bytes) = NonceSize + 2
  /\ pm.envelope.bytes[NonceSize + 1].pt = "p~"

\* the secret file is there and cannot be read or parsed
StoreUnreadable(f, fault) == f.st = "corrupt" \/ (f.st = "ok" /\ fault = "secRead")

\* C16: HasPassword(alias) is (true, nil) when the lookup succeeds, (false, nil)
\* when the file is readable and has no entry for alias, and returns the error
\* when the file cannot be read or parsed.
C16_HasPasswordPropagatesErrors ==
  [][ pm'.op = "HasPassword"
      => /\ (~StoreUnreadable(secFile, pm'.fault) /\ pm'.alias \in DOMAIN secFile.m)
              => (pm'.has /\ pm'.err = "")
         /\ (~StoreUnreadable(secFile, pm'.fault) /\ pm'.alias \notin DOMAIN secFile.m)
              => (~pm'.has /\ pm'.err = "")
         /\ StoreUnreadable(secFile, pm'.fault) => pm'.err # "" ]_vars

\* C18: a successful DeleteServerPassword(alias) removes the entry of alias and
\* keeps every other entry; when alias has no entry the store is left exactly
\* as it was, and no file is created.
C18_DeletePasswordFrame ==
  [][ (pm'.op = "DeleteServerPassword" /\ pm'.err = "")
      => /\ pm'.alias \in DOMAIN secFile.m
              => secFile' = FileOf([x \in DOMAIN secFile.m \ {pm'.alias} |-> secFile.m[x]])
         /\ pm'.alias \notin DOMAIN secFile.m => secFile' = secFile ]_vars

(***************************************************************************)
(* Properties of the metadata calls, checked under SpecMetadata            *)
(***************************************************************************)
\* no metadata can be had for the call: no file, an unparsable file, a failed read
MetadataUnavailable(f, fault) == f.st # "ok" \/ fault = "metaLoad"

\* C19: when the config loads, ListServers returns no error and one record per
\* block whatever the state of the metadata; a record without a metadata entry,
\* and every record when the metadata file is missing or cannot be loaded, has
\* the zero defaults (not pinned, SSHCount 0, never seen).
C19_ListToleratesMetadata ==
  [][ (last'.op = "ListServers" /\ last'.fault # "cfgLoad")
      => /\ last'.err = ""
         /\ Len(last'.servers) = Len(cfg)
         /\ \A i \in 1..Len(cfg) :
              /\ last'.servers[i].Alias = cfg[i].Patterns[1]
              /\ (MetadataUnavailable(metaFile, last'.fault)
                    \/ cfg[i].Patterns[1] \notin DOMAIN metaFile.m)
                   => /\ last'.servers[i].PinnedAt = 0
                      /\ last'.servers[i].SSHCount = 0
                      /\ last'.servers[i].LastSeen = 0 ]_vars

\* the metadata has a used, pinned record for the listed alias and cannot be read
C19_Witness ==
  /\ last.op = "ListServers" /\ last.fault = "metaLoad" /\ last.err = ""
  /\ Len(last.servers) > 0 /\ metaFile.st = "ok"
  /\ last.servers[1].Alias \in DOMAIN metaFile.m
  /\ metaFile.m[last.servers[1].Alias].SSHCount > 0
  /\ last.servers[1].SSHCount = 0

\* C20: a successful RecordSSH(alias) adds one to the SSHCount of alias (1 when
\* there was no record) and sets LastSeen to the current time; the pin of alias,
\* the records of the other aliases, the config and the secrets stay as they were.
C20_RecordSSHCounts ==
  [][ (last'.op = "RecordSSH" /\ last'.err = "")
      => LET a == last'.alias
             had == a \in DOMAIN metaFile.m
         IN /\ DOMAIN metaFile'.m = DOMAIN metaFile.m \cup {a}
            /\ metaFile'.m[a].SSHCount = (IF had THEN metaFile.m[a].SSHCount ELSE 0) + 1
            /\ metaFile'.m[a].LastSeen = Now
            /\ metaFile'.m[a].PinnedAt = (IF had THEN metaFile.m[a].PinnedAt ELSE 0)
            /\ \A b \in DOMAIN metaFile.m \ {a} : metaFile'.m[b] = metaFile.m[b]
            /\ UNCHANGED <<cfg, secFile>> ]_vars

C20_Witness ==
  /\ last.op = "RecordSSH" /\ last.err = ""
  /\ metaFile.m[last.alias].SSHCount = 2 /\ metaFile.m[last.alias].PinnedAt = Now
  /\ \E b \in DOMAIN metaFile.m \ {last.alias} : metaFile.m[b].SSHCount = 1

(***************************************************************************)
(* Properties of the document calls, checked under SpecDocument            *)
(***************************************************************************)
IsDirective(n, key) == n.Kind = "KV" /\ ToLower(n.Key) = ToLower(key)

NonEmpty(files) == SelectSeq(files, LAMBDA f : f # "")

IdentityFilesOf(nodes) ==
  LET family == SelectSeq(nodes, LAMBDA n : IsDirective(n, "IdentityFile"))
  IN [i \in 1..Len(family) |-> family[i].Value]

\* the first block, in document order, one of whose patterns is alias; 0 when none
FirstBlock(c, alias) ==
  IF InDoc(c, alias)
  THEN CHOOSE i \in BlocksOf(c, alias) : \A j \in BlocksOf(c, alias) : i <= j
  ELSE 0

Saved(l, op) == l.op = op /\ l.cfgSaved

\* str has a substring that equals q up to the case of its letters
FoldContains(str, q) ==
  \E i \in 1..(Len(str) - Len(q) + 1) : EqualFold(SubSeq(str, i, i + Len(q) - 1), q)

Matches(rec, q) ==
  \/ FoldContains(rec.Host, q)
  \/ FoldContains(rec.User, q)
  \/ \E i \in 1..Len(rec.Tags) : FoldContains(rec.Tags[i], q)
  \/ \E i \in 1..Len(rec.Aliases) : FoldContains(rec.Aliases[i], q)

\* C24: ListServers with the empty query returns every merged record; with a
\* non-empty query it returns, in the original order, exactly the merged records
\* of which the host, the user, a tag or an alias has the query as a substring
\* up to the case of the letters.
C24_ListFiltersByQuery ==
  [][ (last'.op = "ListServers" /\ last'.err = "")
      => LET all == mergeMetadata(toDomainServer(cfg), metaFile.m)
         IN last'.servers = IF last'.query = "" THEN all
                            ELSE SelectSeq(all, LAMBDA rec : Matches(rec, last'.query)) ]_vars

C24_Witness ==
  /\ last.op = "ListServers" /\ last.query = "WEB" /\ last.err = ""
  /\ Len(cfg) = 3 /\ Len(last.servers) = 1
  /\ last.servers[1].Host = "Web"

ExpectedDirectives(r) ==
  (IF r.Host # "" THEN <<KV("HostName", r.Host)>> ELSE <<>>)
    \o (IF r.User # "" THEN <<KV("User", r.User)>> ELSE <<>>)
    \o (IF r.Port # 0 THEN <<KV("Port", SprintfD(r.Port))>> ELSE <<>>)
    \o [i \in 1..Len(NonEmpty(r.IdentityFiles)) |-> KV("IdentityFile", NonEmpty(r.IdentityFiles)[i])]

\* C25: a successful AddServer appends one block at the end of the document,
\* its only pattern the alias, its directives HostName, User, Port and one
\* IdentityFile per path, in that order, each only when the field is non-empty:
\* an empty host or user, an unset (zero) port and an empty path give no line.
C25_AddWritesNonEmptyFields ==
  [][ Saved(last', "AddServer")
      => /\ Len(cfg') = Len(cfg) + 1
         /\ SubSeq(cfg', 1, Len(cfg)) = cfg
         /\ cfg'[Len(cfg')].Patterns = <<run.record.Alias>>
         /\ cfg'[Len(cfg')].Nodes = ExpectedDirectives(run.record) ]_vars

Rest(nodes) == SelectSeq(nodes, LAMBDA n : ~IsDirective(n, "IdentityFile"))

FirstOf(nodes, i, key) ==
  IsDirective(nodes[i], key) /\ \A j \in 1..(i - 1) : ~IsDirective(nodes[j], key)

Has(nodes, key) == \E i \in 1..Len(nodes) : IsDirective(nodes[i], key)

\* C26: a successful UpdateServer leaves every other block as it was; in the
\* target block the nodes other than IdentityFile directives keep their kind,
\* key and order, and keep their value too unless the node is the first
\* HostName, User or Port directive (key in any case), which takes the value of
\* the record when that field is set; a HostName, User or Port directive is
\* appended only when the block had none of that key.
C26_UpdatePreservesOthers ==
  [][ Saved(last', "UpdateServer")
      => LET k == FirstBlock(cfg, run.alias)
             r == run.record
             before == Rest(cfg[k].Nodes)
             after == Rest(cfg'[k].Nodes)
             taken(i) == \/ FirstOf(before, i, "HostName") /\ r.Host # ""
                         \/ FirstOf(before, i, "User") /\ r.User # ""
                         \/ FirstOf(before, i, "Port")
         IN /\ Len(cfg') = Len(cfg)
            /\ \A i \in 1..Len(cfg) : i # k => cfg'[i] = cfg[i]
            /\ cfg'[k].EOLComment = cfg[k].EOLComment
            /\ Len(after) >= Len(before)
            /\ \A i \in 1..Len(before) :
                 /\ after[i].Kind = before[i].Kind /\ after[i].Key = before[i].Key
                 /\ ~taken(i) => after[i] = before[i]
                 /\ (FirstOf(before, i, "HostName") /\ r.Host # "") => after[i].Value = r.Host
                 /\ (FirstOf(before, i, "User") /\ r.User # "") => after[i].Value = r.User
                 /\ (FirstOf(before, i, "Port") /\ r.Port # 0) => after[i].Value = SprintfD(r.Port)
            /\ \A i \in (Len(before) + 1)..Len(after) :
                 /\ \E key \in {"HostName", "User", "Port"} :
                      IsDirective(after[i], key) /\ ~Has(before, key)
                 /\ \A j \in (Len(before) + 1)..Len(after) :
                      j # i => ~IsDirective(after[j], after[i].Key) ]_vars

C26_Witness ==
  /\ Saved(last, "UpdateServer") /\ run.calls = 1 /\ run.alias = "a"
  /\ run.record.Host = "" /\ run.record.User = "u" /\ run.record.Port = 22
  /\ Len(cfg) = 3 /\ cfg[1].Patterns[1] = "x"
  /\ Rest(cfg[1].Nodes)
       = <<Comment("# c"), KV("hostname", "Web"), KV("ProxyJump", "j"), KV("USER", "u"),
           KV("user", "r2"), Comment(""), KV("Port", "22")>>

\* C27: after a successful UpdateServer the IdentityFile directives of the target
\* block (key in any case) are exactly the non-empty entries of
\* newServer.IdentityFiles, in their order; there are none when the list is empty.
C27_IdentityFilesReplaced ==
  [][ Saved(last', "UpdateServer")
      => IdentityFilesOf(cfg'[FirstBlock(cfg, run.alias)].Nodes)
           = NonEmpty(run.record.IdentityFiles) ]_vars

C27_Witness ==
  /\ Saved(last, "UpdateServer") /\ run.calls = 1 /\ run.alias = "a"
  /\ Len(cfg) = 3 /\ cfg[1].Patterns[1] = "x"
  /\ run.record.IdentityFiles = <<>>
  /\ IdentityFilesOf(cfg[1].Nodes) = <<>>

\* C28: a successful UpdateServer that renames leaves the document with as many
\* blocks, turns every pattern of the target block that equals the old alias
\* into the new alias where it stands, keeps the other patterns of that block in
\* place, and changes no pattern of another block.
C28_RenameInPlace ==
  [][ (Saved(last', "UpdateServer") /\ run.alias # run.record.Alias)
      => LET k == FirstBlock(cfg, run.alias)
         IN /\ Len(cfg') = Len(cfg)
            /\ Len(cfg'[k].Patterns) = Len(cfg[k].Patterns)
            /\ \A j \in 1..Len(cfg[k].Patterns) :
                 cfg'[k].Patterns[j] = IF cfg[k].Patterns[j] = run.alias
                                       THEN run.record.Alias ELSE cfg[k].Patterns[j]
            /\ \A i \in 1..Len(cfg) : i # k => cfg'[i].Patterns = cfg[i].Patterns ]_vars

C28_Witness ==
  /\ Saved(last, "UpdateServer") /\ run.calls = 1
  /\ run.alias = "a" /\ run.record.Alias = "b"
  /\ Len(cfg) = 3 /\ cfg[1].Patterns = <<"x", "b", "y">> /\ cfg[3].Patterns = <<"a", "z">>

\* C29: DeleteServer(alias) and UpdateServer(alias, ...) act on the first block,
\* in document order, one of whose patterns equals alias letter for letter: a
\* successful DeleteServer removes that block and leaves the others in their
\* order, a successful UpdateServer changes no other block, and when no block
\* has such a pattern both return an error and leave the document as it was.
C29_FirstExactMatch ==
  [][ LET k == FirstBlock(cfg, run.alias)
      IN /\ Saved(last', "DeleteServer")
              => k # 0 /\ cfg' = SubSeq(cfg, 1, k - 1) \o SubSeq(cfg, k + 1, Len(cfg))
         /\ Saved(last', "UpdateServer")
              => /\ k # 0 /\ Len(cfg') = Len(cfg)
                 /\ \A i \in 1..Len(cfg) : i # k => cfg'[i] = cfg[i]
                 /\ run.alias # run.record.Alias => cfg'[k] # cfg[k]
         /\ (last'.op \in {"DeleteServer", "UpdateServer"} /\ k = 0)
              => last'.err # "" /\ cfg' = cfg ]_vars

C29_Witness ==
  /\ Saved(last, "DeleteServer") /\ run.calls = 1 /\ run.alias = "a"
  /\ Len(cfg) = 2 /\ cfg[1].Patterns = <<"A">> /\ cfg[2].Patterns = <<"a", "z">>

(***************************************************************************)
(* Properties of the order of the stores, checked under SpecSteps          *)
(***************************************************************************)
StoreWritten ==
  \/ secFile' # secFile \/ metaFile' # metaFile
  \/ run'.op = run.op /\ (run'.secWrote # run.secWrote \/ run'.metaWrote # run.metaWrote)

\* C23: while AddServer, UpdateServer or DeleteServer runs, a step writes the
\* secret store or the metadata store only after the config save of that call
\* has succeeded, with the document of that call on disk; so wherever the call
\* is stopped, a store it has written goes with a config change it has committed.
C23_ConfigWrittenFirst ==
  [][ (run.op \in CfgOps /\ StoreWritten) => (run.saved /\ cfg = run.doc) ]_vars

C23_Witness ==
  /\ run.op = "AddServer" /\ run.pc = 3 /\ run.saved /\ run.secWrote
  /\ InDoc(cfg, run.alias)
  /\ run.alias \in DOMAIN secFile.m /\ run.alias \notin DOMAIN metaFile.m

(***************************************************************************)
(* Properties of overlapping calls, checked under SpecOverlap              *)
(***************************************************************************)
Entry(f, alias) == IF alias \in DOMAIN f.m THEN <<f.m[alias]>> ELSE <<>>

\* C22: a save puts the whole mapping of its caller on disk.  For every alias
\* other than the caller's own: when another call saved the mapping after this
\* caller loaded it (the calls overlap), the save puts back the entry this
\* caller loaded, so the entry the other call saved is lost; when no other call
\* saved in between, the entry on disk stays as it was.
C22_LastWriterWins ==
  [][ \A c \in Callers :
        (run.callers[c].pc = "loaded" /\ run'.callers[c].pc = "idle")
        => LET me == run.callers[c]
               before == IF OnSecrets(me.op) THEN secFile ELSE metaFile
               after == IF OnSecrets(me.op) THEN secFile' ELSE metaFile'
           IN \A x \in AliasSet \ {me.alias} :
                Entry(after, x) = IF me.touched # {} THEN Entry(me.seen, x)
                                  ELSE Entry(before, x) ]_vars

\* both callers have stored a password, for different aliases, in overlapping
\* calls, and the mapping has the entry of one of them only
C22_Witness ==
  /\ run.writes = 2
  /\ \A c \in Callers : run.callers[c].pc = "idle" /\ run.callers[c].done = "UpdateServerPassword"
  /\ run.callers[1].doneAlias = "a" /\ run.callers[2].doneAlias = "b"
  /\ DOMAIN secFile.m = {"b"}

(***************************************************************************)
(* Determinism of UpdateServer, checked under SpecDocument                 *)
(***************************************************************************)
\* C31: for the document on disk and the record handed to it, every execution
\* of UpdateServer writes the same document: the document a successful call
\* wrote is the only one a call with these arguments can write from this
\* state, the order of the appended HostName, User and Port directives included.
C31_UpdateDeterministic ==
  [][ Saved(last', "UpdateServer")
      => \A plan \in Planned("UpdateServer", run.alias, run.record, "none") :
           plan.doc = cfg' ]_vars

(***************************************************************************)
(* Frame of the secret queries, checked under SpecSecrets                  *)
(***************************************************************************)
\* C32: HasPassword and GetDecryptedPassword leave the secret file, the metadata
\* file and the config as they were (a missing secret file stays missing),
\* whether the alias has an entry, has none, the file cannot be read, or the
\* stored string does not decrypt.
C32_SecretQueriesReadOnly ==
  [][ pm'.op \in {"HasPassword", "GetDecryptedPassword"}
      => UNCHANGED <<secFile, metaFile, cfg>> ]_vars

\* the stored string of the alias failed to decrypt
C32_Witness ==
  /\ pm.op = "GetDecryptedPassword" /\ pm.err = "cipher: message authentication failed"
  /\ secFile.st = "ok" /\ pm.alias \in DOMAIN secFile.m

====
